---- MODULE Spec2Model ----
(***************************************************************************)
(* Browser capture tools of skills/web-automation/scripts:                 *)
(*   network_inspector.py  (variables ni_*,  specification SpecNI)         *)
(*   combined_debugger.py  (variables cd_*,  specification SpecCD)         *)
(*   console_debugger.py   (variables con_*, specification SpecCon)        *)
(* and reference code of skills/python/src:                                *)
(*   idioms.py chunked      (variables ch_*, specification SpecChunked)    *)
(*   idioms.py merge_dicts  (variables md_*, specification SpecMerge)      *)
(*   models.py DateRange    (variables dr_*, specification SpecDateRange)  *)
(* and of skills/web-automation/scripts:                                   *)
(*   test_utils.py run_tests (variables rt_*, specification SpecRunTests)  *)
(* Python dict objects that are shared by reference (a pending request     *)
(* that is also in the completed list) live in a heap and are named by     *)
(* their index.  Text is a sequence of one-character strings wherever the  *)
(* code looks inside it (lower(), regex search, slicing).                  *)
(***************************************************************************)
EXTENDS Integers, Sequences, FiniteSets, TLC

VARIABLES
    ni_filter_types,    \* NetworkInspector.filter_types (<<>> is None)
    ni_url_pattern,     \* NetworkInspector.url_pattern (<<>> is None)
    ni_errors_only,     \* NetworkInspector.errors_only
    ni_capture_bodies,  \* NetworkInspector.capture_bodies
    ni_heap,            \* the request dicts, by object reference
    ni_requests,        \* NetworkInspector.requests: request id -> reference
    ni_completed,       \* NetworkInspector.completed: list of references
    ni_tasks,           \* _on_loading_finished tasks created by create_task
    ni_task_raised,     \* exceptions that ended a task
    ni_pc,              \* position of capture()
    ni_browser,         \* "none", "open", "closed"
    ni_closes,          \* number of browser.close() calls
    ni_exc,             \* exception propagating out of capture(), or "none"
    ni_delivered,       \* protocol events delivered so far
    ni_rejected,        \* the (url, type) pairs _on_request_will_be_sent returned early on
    ni_report,          \* the dict capture() returns
    ni_handlers         \* the protocol event names that have a handler (client.on)

ni_vars == <<ni_filter_types, ni_url_pattern, ni_errors_only, ni_capture_bodies,
             ni_heap, ni_requests, ni_completed, ni_tasks,
             ni_task_raised, ni_pc, ni_browser, ni_closes, ni_exc, ni_delivered,
             ni_rejected, ni_report, ni_handlers>>

VARIABLES
    cd_filter_types,    \* CombinedDebugger.filter_types (<<>> is None)
    cd_url_pattern,     \* CombinedDebugger.url_pattern (<<>> is None)
    cd_errors_only,     \* CombinedDebugger.errors_only
    cd_requests,        \* CombinedDebugger.requests: id(request) -> dict
    cd_events,          \* CombinedDebugger.events
    cd_start_time,      \* CombinedDebugger.start_time
    cd_pc,              \* position of capture()
    cd_browser,         \* "none", "open", "closed"
    cd_closes,          \* number of browser.close() calls
    cd_exc,             \* exception propagating out of capture(), or "none"
    cd_report           \* the dict _build_output returns

cd_vars == <<cd_filter_types, cd_url_pattern, cd_errors_only, cd_requests, cd_events,
             cd_start_time, cd_pc, cd_browser, cd_closes, cd_exc, cd_report>>

VARIABLES
    con_errors_only,    \* ConsoleDebugger.errors_only
    con_messages,       \* ConsoleDebugger.messages
    con_exceptions,     \* ConsoleDebugger.exceptions
    con_arrivals,       \* the Runtime.consoleAPICalled types delivered, in order
    con_pc,             \* position of capture()
    con_browser,        \* "none", "open", "closed"
    con_closes,         \* number of browser.close() calls
    con_exc,            \* exception propagating out of capture(), or "none"
    con_report          \* the dict capture() returns

con_vars == <<con_errors_only, con_messages, con_exceptions, con_arrivals, con_pc,
              con_browser, con_closes, con_exc, con_report>>

VARIABLES
    ch_items,           \* chunked: the argument items
    ch_size,            \* chunked: the argument size
    ch_pc,              \* position of the generator
    ch_i,               \* the loop variable i
    ch_chunks,          \* the chunks yielded so far, in order
    ch_exc              \* exception raised by the generator, or "none"

ch_vars == <<ch_items, ch_size, ch_pc, ch_i, ch_chunks, ch_exc>>

VARIABLES
    md_heap,            \* merge_dicts: the dict objects, by object reference
    md_dicts,           \* the argument tuple dicts: references, possibly repeated
    md_given,           \* the dict objects as they were when merge_dicts was called
    md_result,          \* reference of result (0 before it exists)
    md_k,               \* position of the for loop in dicts
    md_pc               \* position of merge_dicts

md_vars == <<md_heap, md_dicts, md_given, md_result, md_k, md_pc>>

VARIABLES
    dr_start,           \* DateRange(start=...)
    dr_end,             \* DateRange(end=...)
    dr_pc,              \* "init", "constructed", "raised", "read"
    dr_value,           \* the constructed DateRange, or None
    dr_exc,             \* exception raised by the constructor, or "none"
    dr_days             \* the value read from the days property

dr_vars == <<dr_start, dr_end, dr_pc, dr_value, dr_exc, dr_days>>

VARIABLES
    rt_with_server,     \* run_tests(with_server=...)
    rt_server_required, \* config.server_required
    rt_server_command,  \* config.server_command is not None/empty
    rt_frameworks,      \* config.frameworks: the framework names
    rt_framework_filter, \* run_tests(framework_filter=...) (<<>> is None)
    rt_port_in_use,     \* a server of somebody else listens on the port
    rt_pc,              \* position of run_tests
    rt_server_proc,     \* server_proc: "None", or the state of the process started
    rt_to_run,          \* frameworks_to_run
    rt_k,               \* position of the for loop in frameworks_to_run
    rt_results          \* the dict results

rt_vars == <<rt_with_server, rt_server_required, rt_server_command, rt_frameworks,
             rt_framework_filter, rt_port_in_use, rt_pc, rt_server_proc, rt_to_run, rt_k,
             rt_results>>

py_vars == <<ch_vars, md_vars, dr_vars, rt_vars>>

vars == <<ni_vars, cd_vars, con_vars, py_vars>>

(***************************************************************************)
(* Bounds                                                                  *)
(***************************************************************************)
\* protocol events delivered in one capture
MaxEvents == 3
\* events the combined debugger stores from its handlers in one capture
MaxCdEvents == 2
\* events the console debugger receives in one capture
MaxConEvents == 3
\* length of the longest response body beyond max_body_size
BodyExcess == 1
\* length of the longest sequence passed to chunked
MaxLen == 4
\* largest size passed to chunked
MaxSize == 3
\* number of dict objects that exist when merge_dicts is called
MaxObjects == 2
\* largest number of arguments of merge_dicts
MaxArgs == 3
\* latest datetime passed to DateRange, in half days after the earliest
MaxTime == 10
\* largest number of frameworks in a TestConfig
MaxFrameworks == 2

\* capture(wait_for_idle): main() always leaves the default
wait_for_idle == TRUE

\* max_body_size of the modelled runs (a constructor argument)
max_body_size == 1

(***************************************************************************)
(* Text helpers                                                            *)
(***************************************************************************)
UpperChars == <<"A","B","C","D","E","F","G","H","I","J","K","L","M",
                "N","O","P","Q","R","S","T","U","V","W","X","Y","Z">>
LowerChars == <<"a","b","c","d","e","f","g","h","i","j","k","l","m",
                "n","o","p","q","r","s","t","u","v","w","x","y","z">>

\* str.lower() on one character
LowerChar(c) ==
    IF \E i \in 1..26 : UpperChars[i] = c
    THEN LowerChars[CHOOSE i \in 1..26 : UpperChars[i] = c]
    ELSE c

\* str.lower()
lower(s) == [i \in 1..Len(s) |-> LowerChar(s[i])]

\* x in list
InList(x, l) == \E i \in 1..Len(l) : l[i] = x

\* re.search for a pattern without metacharacters: the pattern occurs in s
search(pat, s) ==
    \E i \in 1..(Len(s) - Len(pat) + 1) : SubSeq(s, i, i + Len(pat) - 1) = pat

TypeXHR    == <<"X","H","R">>
TypeScript == <<"S","c","r","i","p","t">>
\* the resource types the protocol reports
ResourceTypes == {TypeXHR, TypeScript}
\* the --filter values tried
FilterChoices == {<<>>, << <<"f","e","t","c","h">>, <<"x","h","r">> >>}

UrlApi  == <<"/","a","p","i","/","u">>
UrlImg  == <<"/","a","p","i",".","p","n","g">>
\* request URLs the page issues
Urls == {UrlApi, UrlImg}
\* the URL given to capture()
TargetUrl == <<"/">>
\* the --url-pattern values tried ('api/' is the help text's example)
PatternChoices == {<<>>, <<"a","p","i","/">>}

RequestIds == {"r1", "r2"}
Statuses == {101, 200, 302, 404, 500}

(***************************************************************************)
(* network_inspector.py                                                    *)
(***************************************************************************)
NoResponse == [tag |-> "None", status |-> 0]
AbsentResponse == [tag |-> "absent", status |-> 0]
DictResponse(st) == [tag |-> "dict", status |-> st]
\* req["response_body"]; fetched is the body as Network.getResponseBody returned it
NoBody == [tag |-> "unset", text |-> <<>>, fetched |-> <<>>]

\* _should_capture without its url_pattern test
ni_should_capture_any_url(url, resource_type) ==
    (ni_filter_types # <<>>) =>
        InList(lower(resource_type), [i \in 1..Len(ni_filter_types) |-> lower(ni_filter_types[i])])

\* _should_capture comparing resource_type as it is, without lower()
ni_should_capture_case_sensitive(url, resource_type) ==
    /\ (ni_filter_types # <<>>) =>
           InList(resource_type, [i \in 1..Len(ni_filter_types) |-> lower(ni_filter_types[i])])
    /\ (ni_url_pattern # <<>>) => search(ni_url_pattern, url)

\* NetworkInspector._should_capture
ni_should_capture(url, resource_type) ==
    /\ (ni_filter_types # <<>>) =>
           InList(lower(resource_type), [i \in 1..Len(ni_filter_types) |-> lower(ni_filter_types[i])])
    /\ (ni_url_pattern # <<>>) => search(ni_url_pattern, url)

\* the dict _on_request_will_be_sent stores
ni_new_request(rid, url, resource_type) ==
    [kind |-> "request", id |-> rid, url |-> url, type |-> resource_type,
     response |-> NoResponse, error |-> FALSE, completed |-> "unset", body |-> NoBody]

\* the dict capture() appends when goto raises
ni_navigation_error(url) ==
    [kind |-> "navigation_error", id |-> "navigation_error", url |-> url, type |-> <<>>,
     response |-> AbsentResponse, error |-> TRUE, completed |-> "unset", body |-> NoBody]

\* d[k] = v for a dict d
DictSet(d, k, v) == [x \in DOMAIN d \cup {k} |-> IF x = k THEN v ELSE d[x]]
\* del d[k]
DictDel(d, k) == [x \in DOMAIN d \ {k} |-> d[x]]

\* req.get("response", {}).get("status", 0) raises AttributeError on None
StatusRaises(req) == req.response.tag = "None"
\* req.get("response", {}).get("status", 0)
StatusOrZero(req) == IF req.response.tag = "dict" THEN req.response.status ELSE 0

\* the event loop dispatches protocol events while capture() awaits
ni_Delivering ==
    /\ ni_pc \in {"goto", "idle", "sleep", "closing"}
    /\ ni_browser = "open"
    /\ ni_delivered < MaxEvents

\* the event names capture() subscribes to (lines 189-195)
NetworkEvents == {"Network.requestWillBeSent", "Network.responseReceived",
                  "Network.loadingFinished", "Network.loadingFailed"}

ni_config == <<ni_filter_types, ni_url_pattern, ni_errors_only, ni_capture_bodies>>
\* what no step of the network inspector changes
ni_static == <<ni_config, cd_vars, con_vars, py_vars>>
\* what no step but the subscription changes
ni_fixed == <<ni_static, ni_handlers>>
ni_orch == <<ni_pc, ni_browser, ni_closes, ni_exc, ni_report>>

\* NetworkInspector._on_request_will_be_sent
ni_on_request_will_be_sent(rid, url, resource_type) ==
    /\ ni_Delivering
    /\ "Network.requestWillBeSent" \in ni_handlers
    /\ ni_delivered' = ni_delivered + 1
    /\ IF ~ni_should_capture(url, resource_type)
       THEN /\ ni_rejected' = ni_rejected \cup {<<url, resource_type>>}
            /\ UNCHANGED <<ni_heap, ni_requests>>
       ELSE /\ ni_heap' = Append(ni_heap, ni_new_request(rid, url, resource_type))
            /\ ni_requests' = DictSet(ni_requests, rid, Len(ni_heap) + 1)
            /\ UNCHANGED ni_rejected
    /\ UNCHANGED <<ni_fixed, ni_orch, ni_completed, ni_tasks, ni_task_raised>>

\* a response handler that starts an entry for an id it does not know
ni_on_response_received_creates(rid, status) ==
    /\ ni_Delivering
    /\ "Network.responseReceived" \in ni_handlers
    /\ ni_delivered' = ni_delivered + 1
    /\ IF rid \notin DOMAIN ni_requests
       THEN /\ ni_heap' = Append(ni_heap, [ni_new_request(rid, <<>>, <<>>) EXCEPT !.response = DictResponse(status)])
            /\ ni_requests' = DictSet(ni_requests, rid, Len(ni_heap) + 1)
       ELSE /\ ni_heap' = [ni_heap EXCEPT ![ni_requests[rid]].response = DictResponse(status)]
            /\ UNCHANGED ni_requests
    /\ UNCHANGED <<ni_fixed, ni_orch, ni_completed, ni_tasks, ni_task_raised, ni_rejected>>

\* NetworkInspector._on_response_received
ni_on_response_received(rid, status) ==
    /\ ni_Delivering
    /\ "Network.responseReceived" \in ni_handlers
    /\ ni_delivered' = ni_delivered + 1
    /\ IF rid \notin DOMAIN ni_requests
       THEN UNCHANGED ni_heap
       ELSE ni_heap' = [ni_heap EXCEPT ![ni_requests[rid]].response = DictResponse(status)]
    /\ UNCHANGED <<ni_fixed, ni_orch, ni_requests, ni_completed, ni_tasks, ni_task_raised, ni_rejected>>

\* NetworkInspector._on_loading_failed
ni_on_loading_failed(rid) ==
    /\ ni_Delivering
    /\ "Network.loadingFailed" \in ni_handlers
    /\ ni_delivered' = ni_delivered + 1
    /\ IF rid \notin DOMAIN ni_requests
       THEN UNCHANGED <<ni_heap, ni_requests, ni_completed>>
       ELSE /\ ni_heap' = [ni_heap EXCEPT ![ni_requests[rid]].error = TRUE,
                                          ![ni_requests[rid]].completed = "False"]
            /\ ni_completed' = Append(ni_completed, ni_requests[rid])
            /\ ni_requests' = DictDel(ni_requests, rid)
    /\ UNCHANGED <<ni_fixed, ni_orch, ni_tasks, ni_task_raised, ni_rejected>>

\* the lambda capture() registers for Network.loadingFinished:
\* asyncio.create_task(self._on_loading_finished(p))
ni_schedule_loading_finished(rid) ==
    /\ ni_Delivering
    /\ "Network.loadingFinished" \in ni_handlers
    /\ ni_delivered' = ni_delivered + 1
    /\ ni_tasks' = Append(ni_tasks, [rid |-> rid, stage |-> "scheduled", ref |-> 0])
    /\ UNCHANGED <<ni_fixed, ni_orch, ni_heap, ni_requests, ni_completed, ni_task_raised, ni_rejected>>

\* the fixed text appended to a truncated body: f"... (truncated, total {len(body)} bytes)"
TruncationMarker(n) == <<"... (truncated, total ", ToString(n), " bytes)">>

\* the truncation with >= for >
ni_truncate_at_ceiling(body) ==
    IF Len(body) >= max_body_size
    THEN SubSeq(body, 1, max_body_size) \o TruncationMarker(Len(body))
    ELSE body

\* body[: max_body_size] + marker when len(body) > max_body_size
ni_truncate(body) ==
    IF Len(body) > max_body_size
    THEN SubSeq(body, 1, max_body_size) \o TruncationMarker(Len(body))
    ELSE body

\* bodies Network.getResponseBody returns
Bodies == {[i \in 1..n |-> "b"] : n \in {0} \cup (max_body_size..(max_body_size + BodyExcess))}

\* an event loop that still runs tasks after capture() has returned
ni_LoopRuns_after_return == ni_pc \in {"goto", "idle", "sleep", "closing", "exiting", "done"}

\* tasks run whenever capture() is suspended in an await
ni_LoopRuns == ni_pc \in {"goto", "idle", "sleep", "closing", "exiting"}

RemoveAt(seq, i) == SubSeq(seq, 1, i - 1) \o SubSeq(seq, i + 1, Len(seq))

\* lines 139-142 with an errors_only test that lets only 5xx responses through
ni_finish_tail_server_errors(i, ref, h) ==
    LET req == h[ref]
        rid == ni_tasks[i].rid
    IN  IF ni_errors_only /\ ~req.error /\ StatusRaises(req)
        THEN /\ ni_heap' = h
             /\ ni_task_raised' = ni_task_raised \cup {"AttributeError"}
             /\ ni_tasks' = RemoveAt(ni_tasks, i)
             /\ UNCHANGED <<ni_requests, ni_completed>>
        ELSE /\ ni_heap' = h
             /\ ni_completed' =
                    IF ~ni_errors_only \/ req.error \/ StatusOrZero(req) >= 500
                    THEN Append(ni_completed, ref) ELSE ni_completed
             /\ ni_tasks' = RemoveAt(ni_tasks, i)
             /\ IF rid \in DOMAIN ni_requests
                THEN /\ ni_requests' = DictDel(ni_requests, rid)
                     /\ UNCHANGED ni_task_raised
                ELSE /\ ni_task_raised' = ni_task_raised \cup {"KeyError"}
                     /\ UNCHANGED ni_requests

\* lines 139-142 of _on_loading_finished, run by task i on the dict ref, whose
\* heap is h: the errors_only test, the append and the del
ni_finish_tail(i, ref, h) ==
    LET req == h[ref]
        rid == ni_tasks[i].rid
    IN  IF ni_errors_only /\ ~req.error /\ StatusRaises(req)
        THEN \* AttributeError: 'NoneType' object has no attribute 'get'
             /\ ni_heap' = h
             /\ ni_task_raised' = ni_task_raised \cup {"AttributeError"}
             /\ ni_tasks' = RemoveAt(ni_tasks, i)
             /\ UNCHANGED <<ni_requests, ni_completed>>
        ELSE /\ ni_heap' = h
             /\ ni_completed' =
                    IF ~ni_errors_only \/ req.error \/ StatusOrZero(req) >= 400
                    THEN Append(ni_completed, ref) ELSE ni_completed
             /\ ni_tasks' = RemoveAt(ni_tasks, i)
             /\ IF rid \in DOMAIN ni_requests
                THEN /\ ni_requests' = DictDel(ni_requests, rid)
                     /\ UNCHANGED ni_task_raised
                ELSE \* del of a missing key: KeyError
                     /\ ni_task_raised' = ni_task_raised \cup {"KeyError"}
                     /\ UNCHANGED ni_requests

\* the first task the loop has not started yet (tasks start in creation order)
ni_next_scheduled ==
    CHOOSE i \in 1..Len(ni_tasks) :
        /\ ni_tasks[i].stage = "scheduled"
        /\ \A j \in 1..(i - 1) : ni_tasks[j].stage # "scheduled"

\* NetworkInspector._on_loading_finished, from its start to the await of
\* Network.getResponseBody (or to its end when bodies are not captured)
ni_on_loading_finished ==
    /\ ni_LoopRuns
    /\ \E i \in 1..Len(ni_tasks) : ni_tasks[i].stage = "scheduled"
    /\ LET i == ni_next_scheduled
           rid == ni_tasks[i].rid
       IN  IF rid \notin DOMAIN ni_requests
           THEN /\ ni_tasks' = RemoveAt(ni_tasks, i)
                /\ UNCHANGED <<ni_heap, ni_requests, ni_completed, ni_task_raised>>
           ELSE LET ref == ni_requests[rid]
                    h == [ni_heap EXCEPT ![ref].completed = "True"]
                IN  IF ni_capture_bodies
                    THEN /\ ni_heap' = h
                         /\ ni_tasks' = [ni_tasks EXCEPT ![i] = [rid |-> rid, stage |-> "awaiting", ref |-> ref]]
                         /\ UNCHANGED <<ni_requests, ni_completed, ni_task_raised>>
                    ELSE ni_finish_tail(i, ref, h)
    /\ UNCHANGED <<ni_fixed, ni_orch, ni_delivered, ni_rejected>>

\* _on_loading_finished resumed with the body: lines 131-142
ni_body_fetched(i, body) ==
    /\ ni_LoopRuns
    /\ ni_browser = "open"
    /\ i \in 1..Len(ni_tasks)
    /\ ni_tasks[i].stage = "awaiting"
    /\ LET ref == ni_tasks[i].ref
       IN  ni_finish_tail(i, ref, [ni_heap EXCEPT ![ref].body = [tag |-> "str", text |-> ni_truncate(body), fetched |-> body]])
    /\ UNCHANGED <<ni_fixed, ni_orch, ni_delivered, ni_rejected>>

\* a fetch failure that ends the handler: the body is recorded as None and
\* lines 139-142 are skipped
ni_body_fetch_failed_returns(i) ==
    /\ ni_LoopRuns
    /\ i \in 1..Len(ni_tasks)
    /\ ni_tasks[i].stage = "awaiting"
    /\ ni_heap' = [ni_heap EXCEPT ![ni_tasks[i].ref].body = [tag |-> "None", text |-> <<>>, fetched |-> <<>>]]
    /\ ni_tasks' = RemoveAt(ni_tasks, i)
    /\ UNCHANGED <<ni_fixed, ni_orch, ni_requests, ni_completed, ni_task_raised, ni_delivered,
                   ni_rejected>>

\* _on_loading_finished resumed with the fetch raising: lines 136-142
ni_body_fetch_failed(i) ==
    /\ ni_LoopRuns
    /\ i \in 1..Len(ni_tasks)
    /\ ni_tasks[i].stage = "awaiting"
    /\ LET ref == ni_tasks[i].ref
       IN  ni_finish_tail(i, ref, [ni_heap EXCEPT ![ref].body = [tag |-> "None", text |-> <<>>, fetched |-> <<>>]])
    /\ UNCHANGED <<ni_fixed, ni_orch, ni_delivered, ni_rejected>>

\* self.completed with every reference replaced by the dict it names
ni_completed_dicts == [i \in 1..Len(ni_completed) |-> ni_heap[ni_completed[i]]]

\* the status class _count_by_status counts req in, "none" when it counts it nowhere
ni_status_class(req) ==
    IF req.error THEN "failed"
    ELSE IF req.response.tag = "dict"
         THEN LET status == req.response.status
              IN  IF 200 <= status /\ status < 300 THEN "2xx"
                  ELSE IF 300 <= status /\ status < 400 THEN "3xx"
                  ELSE IF 400 <= status /\ status < 500 THEN "4xx"
                  ELSE IF status >= 500 THEN "5xx"
                  ELSE "none"
         ELSE "none"

StatusClasses == {"2xx", "3xx", "4xx", "5xx", "failed"}

\* NetworkInspector._count_by_status
ni_count_by_status(list) ==
    [c \in StatusClasses |-> Cardinality({i \in 1..Len(list) : ni_status_class(list[i]) = c})]

\* line 220: the generator of error_count raises on an entry whose response is None
ni_error_count_raises(list) ==
    \E i \in 1..Len(list) : ~list[i].error /\ StatusRaises(list[i])

\* line 220: error_count
ni_error_count(list) ==
    Cardinality({i \in 1..Len(list) : list[i].error \/ StatusOrZero(list[i]) >= 400})

NoReport == [built |-> FALSE, data |-> <<>>, total |-> 0, errors |-> 0,
             by_status |-> [c \in StatusClasses |-> 0]]

\* the dict capture() returns (lines 222-241)
ni_build_report(list) ==
    [built |-> TRUE, data |-> list, total |-> Len(list), errors |-> ni_error_count(list),
     by_status |-> ni_count_by_status(list)]

ni_buffer == <<ni_heap, ni_requests, ni_completed, ni_tasks, ni_task_raised, ni_delivered,
               ni_rejected>>

\* capture() line 181-185: launch, new_context, new_page, new_cdp_session
ni_launch ==
    /\ ni_pc = "init"
    /\ \/ /\ ni_pc' = "launched"
          /\ ni_browser' = "open"
          /\ UNCHANGED ni_exc
       \/ /\ ni_pc' = "raised"
          /\ ni_exc' = "LaunchError"
          /\ UNCHANGED ni_browser
    /\ UNCHANGED <<ni_fixed, ni_buffer, ni_closes, ni_report>>

\* Network.enable whose rejection is recorded but does not stop capture()
ni_enable_swallowed ==
    /\ ni_pc = "launched"
    /\ \/ /\ ni_pc' = "enabled"
          /\ UNCHANGED ni_exc
       \/ /\ ni_pc' = "enabled"
          /\ ni_exc' = "ProtocolError"
    /\ UNCHANGED <<ni_fixed, ni_buffer, ni_browser, ni_closes, ni_report>>

\* capture() line 187: Network.enable, outside the try
ni_enable ==
    /\ ni_pc = "launched"
    /\ \/ /\ ni_pc' = "enabled"
          /\ UNCHANGED ni_exc
       \/ /\ ni_pc' = "raised"
          /\ ni_exc' = "ProtocolError"
    /\ UNCHANGED <<ni_fixed, ni_buffer, ni_browser, ni_closes, ni_report>>

\* capture() going on to goto without any client.on call
ni_subscribe_skipped ==
    /\ ni_pc = "enabled"
    /\ ni_pc' = "goto"
    /\ UNCHANGED <<ni_fixed, ni_buffer, ni_browser, ni_closes, ni_exc, ni_report>>

\* capture() lines 189-198: the four client.on calls, then goto is awaited
ni_subscribe ==
    /\ ni_pc = "enabled"
    /\ ni_handlers' = NetworkEvents
    /\ ni_pc' = "goto"
    /\ UNCHANGED <<ni_static, ni_buffer, ni_browser, ni_closes, ni_exc, ni_report>>

\* page.goto returns: lines 198-206
ni_goto_ok ==
    /\ ni_pc = "goto"
    /\ ni_pc' = IF wait_for_idle THEN "idle" ELSE "sleep"
    /\ UNCHANGED <<ni_fixed, ni_buffer, ni_browser, ni_closes, ni_exc, ni_report>>

\* page.goto raises: the except block (lines 208-215) appends the navigation
\* error and the finally block starts browser.close()
ni_goto_raises ==
    /\ ni_pc = "goto"
    /\ ni_heap' = Append(ni_heap, ni_navigation_error(TargetUrl))
    /\ ni_completed' = Append(ni_completed, Len(ni_heap) + 1)
    /\ ni_pc' = "closing"
    /\ UNCHANGED <<ni_fixed, ni_requests, ni_tasks, ni_task_raised, ni_delivered, ni_rejected,
                   ni_browser, ni_closes, ni_exc, ni_report>>

\* wait_for_load_state returns or raises (swallowed, lines 200-204)
ni_idle_done ==
    /\ ni_pc = "idle"
    /\ ni_pc' = "sleep"
    /\ UNCHANGED <<ni_fixed, ni_buffer, ni_browser, ni_closes, ni_exc, ni_report>>

\* asyncio.sleep(duration) returns; the finally block starts browser.close()
ni_sleep_done ==
    /\ ni_pc = "sleep"
    /\ ni_pc' = "closing"
    /\ UNCHANGED <<ni_fixed, ni_buffer, ni_browser, ni_closes, ni_exc, ni_report>>

\* the task is cancelled in an await of the try block: CancelledError is not an
\* Exception, so only the finally block runs
ni_cancel ==
    /\ ni_pc \in {"goto", "idle", "sleep"}
    /\ ni_pc' = "closing"
    /\ ni_exc' = "CancelledError"
    /\ UNCHANGED <<ni_fixed, ni_buffer, ni_browser, ni_closes, ni_report>>

\* browser.close() returns (line 218); the async with block is left
ni_close_done ==
    /\ ni_pc = "closing"
    /\ ni_browser' = "closed"
    /\ ni_closes' = ni_closes + 1
    /\ ni_pc' = "exiting"
    /\ UNCHANGED <<ni_fixed, ni_buffer, ni_exc, ni_report>>

\* lines 220-241: error_count and the returned dict
ni_return ==
    /\ ni_pc = "exiting"
    /\ IF ni_exc # "none"
       THEN /\ ni_pc' = "raised"
            /\ UNCHANGED <<ni_exc, ni_report>>
       ELSE IF ni_error_count_raises(ni_completed_dicts)
            THEN /\ ni_pc' = "raised"
                 /\ ni_exc' = "AttributeError"
                 /\ UNCHANGED ni_report
            ELSE /\ ni_pc' = "done"
                 /\ ni_report' = ni_build_report(ni_completed_dicts)
                 /\ UNCHANGED ni_exc
    /\ UNCHANGED <<ni_fixed, ni_buffer, ni_browser, ni_closes>>

ni_Init ==
    /\ ni_filter_types \in FilterChoices
    /\ ni_url_pattern \in PatternChoices
    /\ ni_errors_only \in BOOLEAN
    /\ ni_capture_bodies \in BOOLEAN
    /\ ni_heap = <<>>
    /\ ni_requests = <<>>
    /\ ni_completed = <<>>
    /\ ni_tasks = <<>>
    /\ ni_task_raised = {}
    /\ ni_pc = "init"
    /\ ni_browser = "none"
    /\ ni_closes = 0
    /\ ni_exc = "none"
    /\ ni_delivered = 0
    /\ ni_rejected = {}
    /\ ni_report = NoReport
    /\ ni_handlers = {}

ni_Next ==
    \/ ni_launch
    \/ ni_enable
    \/ ni_subscribe
    \/ ni_goto_ok
    \/ ni_goto_raises
    \/ ni_idle_done
    \/ ni_sleep_done
    \/ ni_cancel
    \/ ni_close_done
    \/ ni_return
    \/ \E rid \in RequestIds, url \in Urls, t \in ResourceTypes : ni_on_request_will_be_sent(rid, url, t)
    \/ \E rid \in RequestIds, st \in Statuses : ni_on_response_received(rid, st)
    \/ \E rid \in RequestIds : ni_on_loading_failed(rid)
    \/ \E rid \in RequestIds : ni_schedule_loading_finished(rid)
    \/ ni_on_loading_finished
    \/ \E i \in 1..Len(ni_tasks), body \in Bodies : ni_body_fetched(i, body)
    \/ \E i \in 1..Len(ni_tasks) : ni_body_fetch_failed(i)


(***************************************************************************)
(* combined_debugger.py                                                    *)
(***************************************************************************)
\* width of the correlation window in ms (line 250)
CorrelationWindow == 100
\* a wall-clock reading in ms that is not zero
Epoch == 1000
\* readings of datetime.now(): the wall clock may also step back
ClockValues == {Epoch, Epoch + CorrelationWindow, Epoch + CorrelationWindow + 1}

\* Playwright reports resource types in lower case
cd_ResourceTypes == {<<"x","h","r">>, <<"s","c","r","i","p","t">>}
\* the --filter values tried
cd_FilterChoices == {<<>>, << <<"F","e","t","c","h">>, <<"X","H","R">> >>}
cd_Statuses == {200, 404}
\* ConsoleMessage.type values
cd_ConsoleTypes == {"log", "error"}

\* CombinedDebugger._get_timestamp_offset (ms is never None at its call sites)
cd_get_timestamp_offset(ms) == ms - cd_start_time

\* CombinedDebugger._should_capture_request
cd_should_capture_request(url, resource_type) ==
    /\ (cd_filter_types # <<>>) =>
           InList(lower(resource_type), [i \in 1..Len(cd_filter_types) |-> lower(cd_filter_types[i])])
    /\ (cd_url_pattern # <<>>) => search(cd_url_pattern, url)

\* request ids of the combined debugger: id(request)
cd_RequestIds == {"q1"}

\* an item of self.events; the keys an event type does not have are ""/<<>>/0
cd_event(type, ts, url, status, level) ==
    [type |-> type, timestamp_ms |-> ts, url |-> url, status |-> status, level |-> level]

cd_Delivering ==
    /\ cd_pc \in {"goto", "sleep", "closing"}
    /\ cd_browser = "open"
    /\ Len(cd_events) < MaxCdEvents

cd_config == <<cd_filter_types, cd_url_pattern, cd_errors_only>>
\* what no step of the combined debugger changes
cd_fixed == <<cd_config, ni_vars, con_vars, py_vars>>
cd_orch == <<cd_start_time, cd_pc, cd_browser, cd_closes, cd_exc, cd_report>>

\* CombinedDebugger._on_request
cd_on_request(rid, url, resource_type, now) ==
    /\ cd_Delivering
    /\ IF ~cd_should_capture_request(url, resource_type)
       THEN UNCHANGED <<cd_requests, cd_events>>
       ELSE LET ts == cd_get_timestamp_offset(now)
            IN  /\ cd_requests' = DictSet(cd_requests, rid,
                        [url |-> url, type |-> resource_type, timestamp_ms |-> ts,
                         has_status |-> FALSE, status |-> 0])
                /\ cd_events' = Append(cd_events, cd_event("request", ts, url, 0, ""))
    /\ UNCHANGED <<cd_fixed, cd_orch>>

\* CombinedDebugger._on_response
cd_on_response(rid, status, now) ==
    /\ cd_Delivering
    /\ IF rid \notin DOMAIN cd_requests
       THEN UNCHANGED <<cd_requests, cd_events>>
       ELSE /\ cd_requests' = [cd_requests EXCEPT ![rid].has_status = TRUE, ![rid].status = status]
            /\ cd_events' = Append(cd_events,
                   cd_event("response", cd_get_timestamp_offset(now), cd_requests[rid].url, status, ""))
    /\ UNCHANGED <<cd_fixed, cd_orch>>

\* CombinedDebugger._on_request_failed
cd_on_request_failed(rid, now) ==
    /\ cd_Delivering
    /\ IF rid \notin DOMAIN cd_requests
       THEN UNCHANGED cd_events
       ELSE cd_events' = Append(cd_events,
                cd_event("request_failed", cd_get_timestamp_offset(now), cd_requests[rid].url, 0, ""))
    /\ UNCHANGED <<cd_fixed, cd_orch, cd_requests>>

\* CombinedDebugger._on_console
cd_on_console(msg_type, now) ==
    /\ cd_Delivering
    /\ IF cd_errors_only /\ msg_type \notin {"error", "warning"}
       THEN UNCHANGED cd_events
       ELSE cd_events' = Append(cd_events,
                cd_event("console", cd_get_timestamp_offset(now), <<>>, 0, msg_type))
    /\ UNCHANGED <<cd_fixed, cd_orch, cd_requests>>

\* CombinedDebugger._on_page_error
cd_on_page_error(now) ==
    /\ cd_Delivering
    /\ cd_events' = Append(cd_events, cd_event("page_error", cd_get_timestamp_offset(now), <<>>, 0, ""))
    /\ UNCHANGED <<cd_fixed, cd_orch, cd_requests>>

\* the insertion in front of the positions of equal key
RECURSIVE InsertByKeyTiesFirst(_, _, _)
InsertByKeyTiesFirst(order, i, keys) ==
    IF order = <<>> THEN <<i>>
    ELSE IF keys[order[Len(order)]] < keys[i]
         THEN Append(order, i)
         ELSE Append(InsertByKeyTiesFirst(SubSeq(order, 1, Len(order) - 1), i, keys),
                     order[Len(order)])

\* position i of the list is inserted into order (positions, ascending by key)
\* behind every position whose key is not greater, so ties keep their order
RECURSIVE InsertByKey(_, _, _)
InsertByKey(order, i, keys) ==
    IF order = <<>> THEN <<i>>
    ELSE IF keys[order[Len(order)]] <= keys[i]
         THEN Append(order, i)
         ELSE Append(InsertByKey(SubSeq(order, 1, Len(order) - 1), i, keys), order[Len(order)])

\* the positions of a list in ascending, stable order of their keys
RECURSIVE SortOrder(_, _)
SortOrder(n, keys) ==
    IF n = 0 THEN <<>> ELSE InsertByKey(SortOrder(n - 1, keys), n, keys)

\* sorted(list, key=...) and list.sort(key=...), keys[i] being the key of list[i]
sorted(list, keys) ==
    LET order == SortOrder(Len(list), keys)
    IN  [k \in 1..Len(list) |-> list[order[k]]]

\* the sort key of _build_output (line 239)
cd_sort_keys(events) == [i \in 1..Len(events) |-> events[i].timestamp_ms]

Abs(x) == IF x < 0 THEN -x ELSE x

\* the event types _build_output correlates (line 247)
cd_correlated_types == {"page_error", "request_failed"}

\* lines 248-252: the nearby list of event within sorted_events
cd_nearby(sorted_events, event) ==
    LET Near(e) == Abs(e.timestamp_ms - event.timestamp_ms) <= CorrelationWindow /\ e # event
    IN  SelectSeq(sorted_events, Near)

\* lines 243-256: the copy of event, with related_events when nearby is not empty
cd_correlate(sorted_events, event) ==
    LET nearby == IF event.type \in cd_correlated_types
                  THEN cd_nearby(sorted_events, event) ELSE <<>>
    IN  [event |-> event, has_related |-> nearby # <<>>, related_events |-> nearby]

cd_NoReport == [built |-> FALSE, events |-> <<>>, total_events |-> 0, requests |-> 0,
                responses |-> 0, errors |-> 0, console_messages |-> 0]

\* CombinedDebugger._build_output
cd_build_output(events) ==
    LET sorted_events == sorted(events, cd_sort_keys(events))
        correlated_events == [i \in 1..Len(sorted_events) |-> cd_correlate(sorted_events, sorted_events[i])]
        \* len([e for e in correlated_events if e["type"] in types])
        Count(types) == Cardinality({i \in 1..Len(correlated_events) :
                                        correlated_events[i].event.type \in types})
    IN  [built |-> TRUE, events |-> correlated_events,
         total_events |-> Len(correlated_events),
         requests |-> Count({"request"}),
         responses |-> Count({"response"}),
         errors |-> Count({"page_error", "request_failed"}),
         console_messages |-> Count({"console"})]

cd_buffer == <<cd_requests, cd_events>>

\* capture() lines 94-113: launch, start_time, the five page.on calls; goto is awaited
cd_launch ==
    /\ cd_pc = "init"
    /\ \/ /\ cd_pc' = "goto"
          /\ cd_browser' = "open"
          /\ cd_start_time' = Epoch
          /\ UNCHANGED cd_exc
       \/ /\ cd_pc' = "raised"
          /\ cd_exc' = "LaunchError"
          /\ UNCHANGED <<cd_browser, cd_start_time>>
    /\ UNCHANGED <<cd_fixed, cd_buffer, cd_closes, cd_report>>

\* page.goto returns; asyncio.sleep is awaited
cd_goto_ok ==
    /\ cd_pc = "goto"
    /\ cd_pc' = "sleep"
    /\ UNCHANGED <<cd_fixed, cd_buffer, cd_start_time, cd_browser, cd_closes, cd_exc, cd_report>>

\* page.goto raises (lines 114-124): the navigation_error event, then the sleep
cd_goto_raises(now) ==
    /\ cd_pc = "goto"
    /\ cd_events' = Append(cd_events,
           cd_event("navigation_error", cd_get_timestamp_offset(now), <<>>, 0, ""))
    /\ cd_pc' = "sleep"
    /\ UNCHANGED <<cd_fixed, cd_requests, cd_start_time, cd_browser,
                   cd_closes, cd_exc, cd_report>>

\* asyncio.sleep returns; context.close() and browser.close() are awaited
cd_sleep_done ==
    /\ cd_pc = "sleep"
    /\ cd_pc' = "closing"
    /\ UNCHANGED <<cd_fixed, cd_buffer, cd_start_time, cd_browser, cd_closes, cd_exc, cd_report>>

\* the task is cancelled in goto or sleep: no handler, no finally, capture() raises
cd_cancel ==
    /\ cd_pc \in {"goto", "sleep"}
    /\ cd_pc' = "raised"
    /\ cd_exc' = "CancelledError"
    /\ UNCHANGED <<cd_fixed, cd_buffer, cd_start_time, cd_browser, cd_closes, cd_report>>

\* lines 126-127 return
cd_close_done ==
    /\ cd_pc = "closing"
    /\ cd_browser' = "closed"
    /\ cd_closes' = cd_closes + 1
    /\ cd_pc' = "exiting"
    /\ UNCHANGED <<cd_fixed, cd_buffer, cd_start_time, cd_exc, cd_report>>

\* line 129: return self._build_output()
cd_return ==
    /\ cd_pc = "exiting"
    /\ cd_pc' = "done"
    /\ cd_report' = cd_build_output(cd_events)
    /\ UNCHANGED <<cd_fixed, cd_buffer, cd_start_time, cd_browser, cd_closes, cd_exc>>

cd_Next ==
    \/ cd_launch
    \/ cd_goto_ok
    \/ \E now \in ClockValues : cd_goto_raises(now)
    \/ cd_sleep_done
    \/ cd_cancel
    \/ cd_close_done
    \/ cd_return
    \/ \E rid \in cd_RequestIds, url \in Urls, t \in cd_ResourceTypes, now \in ClockValues :
           cd_on_request(rid, url, t, now)
    \/ \E rid \in cd_RequestIds, st \in cd_Statuses, now \in ClockValues : cd_on_response(rid, st, now)
    \/ \E rid \in cd_RequestIds, now \in ClockValues : cd_on_request_failed(rid, now)
    \/ \E t \in cd_ConsoleTypes, now \in ClockValues : cd_on_console(t, now)
    \/ \E now \in ClockValues : cd_on_page_error(now)

(***************************************************************************)
(* console_debugger.py                                                     *)
(***************************************************************************)
\* ConsoleDebugger(include_timestamps): main() always leaves the default
include_timestamps == TRUE

\* the type of a Runtime.consoleAPICalled event; _type_to_level lists them
con_ConsoleTypes == {"log", "warn", "warning", "error", "assert"}
\* the timestamp of a protocol event
con_Timestamps == {Epoch, Epoch + 1}

\* ConsoleDebugger._type_to_level
con_type_to_level(msg_type) ==
    CASE msg_type \in {"log", "info", "dir", "dirxml", "table", "count", "timeEnd",
                       "group", "groupCollapsed", "groupEnd", "clear"} -> "info"
      [] msg_type \in {"debug", "trace"} -> "debug"
      [] msg_type \in {"warning", "warn"} -> "warning"
      [] msg_type \in {"error", "assert"} -> "error"
      [] OTHER -> "info"

\* an item of self.messages or self.exceptions
con_entry(type, level, has_timestamp, timestamp) ==
    [type |-> type, level |-> level, has_timestamp |-> has_timestamp, timestamp |-> timestamp]

con_Delivering ==
    /\ con_pc \in {"goto", "idle", "sleep", "closing"}
    /\ con_browser = "open"
    /\ Len(con_arrivals) + Len(con_exceptions) < MaxConEvents

\* what no step of the console debugger changes
con_fixed == <<con_errors_only, ni_vars, cd_vars, py_vars>>
con_orch == <<con_pc, con_browser, con_closes, con_exc, con_report>>
con_buffer == <<con_messages, con_exceptions, con_arrivals>>

\* ConsoleDebugger._on_console_api_called
con_on_console_api_called(msg_type, timestamp) ==
    /\ con_Delivering
    /\ con_arrivals' = Append(con_arrivals, msg_type)
    /\ IF con_errors_only /\ msg_type \notin {"error", "warning", "assert"}
       THEN UNCHANGED con_messages
       ELSE con_messages' = Append(con_messages,
                con_entry(msg_type, con_type_to_level(msg_type), include_timestamps,
                          IF include_timestamps THEN timestamp ELSE 0))
    /\ UNCHANGED <<con_fixed, con_orch, con_exceptions>>

\* ConsoleDebugger._on_exception_thrown
con_on_exception_thrown(timestamp) ==
    /\ con_Delivering
    /\ con_exceptions' = Append(con_exceptions,
           con_entry("exception", "error", include_timestamps,
                     IF include_timestamps THEN timestamp ELSE 0))
    /\ UNCHANGED <<con_fixed, con_orch, con_messages, con_arrivals>>

\* the sort key of capture() line 211: x.get("timestamp", 0)
con_sort_keys(entries) ==
    [i \in 1..Len(entries) |-> IF entries[i].has_timestamp THEN entries[i].timestamp ELSE 0]

con_Levels == {"info", "debug", "warning", "error"}

\* ConsoleDebugger._count_by_level
con_count_by_level(entries) ==
    [l \in con_Levels |-> Cardinality({i \in 1..Len(entries) : entries[i].level = l})]

con_NoReport == [built |-> FALSE, data |-> <<>>, total |-> 0, messages |-> 0, exceptions |-> 0,
                 by_level |-> [l \in con_Levels |-> 0], errors |-> 0, warnings |-> 0]

\* capture() lines 210-236
con_build_report ==
    LET all_entries == sorted(con_messages \o con_exceptions,
                              con_sort_keys(con_messages \o con_exceptions))
    IN  [built |-> TRUE, data |-> all_entries, total |-> Len(all_entries),
         messages |-> Len(con_messages), exceptions |-> Len(con_exceptions),
         by_level |-> con_count_by_level(all_entries),
         errors |-> Cardinality({i \in 1..Len(all_entries) : all_entries[i].level = "error"}),
         warnings |-> Cardinality({i \in 1..Len(all_entries) : all_entries[i].level = "warning"})]

\* capture() lines 174-178: launch, new_context, new_page, new_cdp_session
con_launch ==
    /\ con_pc = "init"
    /\ \/ /\ con_pc' = "launched"
          /\ con_browser' = "open"
          /\ UNCHANGED con_exc
       \/ /\ con_pc' = "raised"
          /\ con_exc' = "LaunchError"
          /\ UNCHANGED con_browser
    /\ UNCHANGED <<con_fixed, con_buffer, con_closes, con_report>>

\* capture() line 180: Runtime.enable, outside the try
con_enable_runtime ==
    /\ con_pc = "launched"
    /\ \/ /\ con_pc' = "runtime_enabled"
          /\ UNCHANGED con_exc
       \/ /\ con_pc' = "raised"
          /\ con_exc' = "ProtocolError"
    /\ UNCHANGED <<con_fixed, con_buffer, con_browser, con_closes, con_report>>

\* capture() lines 181-187: Log.enable, then the two client.on calls; goto is awaited
con_enable_log ==
    /\ con_pc = "runtime_enabled"
    /\ \/ /\ con_pc' = "goto"
          /\ UNCHANGED con_exc
       \/ /\ con_pc' = "raised"
          /\ con_exc' = "ProtocolError"
    /\ UNCHANGED <<con_fixed, con_buffer, con_browser, con_closes, con_report>>

\* page.goto returns: lines 187-195
con_goto_ok ==
    /\ con_pc = "goto"
    /\ con_pc' = IF wait_for_idle THEN "idle" ELSE "sleep"
    /\ UNCHANGED <<con_fixed, con_buffer, con_browser, con_closes, con_exc, con_report>>

\* page.goto raises: the except block (lines 197-205) appends the navigation
\* error and the finally block starts browser.close()
con_goto_raises ==
    /\ con_pc = "goto"
    /\ con_exceptions' = Append(con_exceptions, con_entry("navigation_error", "error", FALSE, 0))
    /\ con_pc' = "closing"
    /\ UNCHANGED <<con_fixed, con_messages, con_arrivals, con_browser, con_closes, con_exc,
                   con_report>>

\* wait_for_load_state returns or raises (swallowed, lines 189-193)
con_idle_done ==
    /\ con_pc = "idle"
    /\ con_pc' = "sleep"
    /\ UNCHANGED <<con_fixed, con_buffer, con_browser, con_closes, con_exc, con_report>>

\* asyncio.sleep(duration) returns; the finally block starts browser.close()
con_sleep_done ==
    /\ con_pc = "sleep"
    /\ con_pc' = "closing"
    /\ UNCHANGED <<con_fixed, con_buffer, con_browser, con_closes, con_exc, con_report>>

\* the task is cancelled in an await of the try block: only the finally block runs
con_cancel ==
    /\ con_pc \in {"goto", "idle", "sleep"}
    /\ con_pc' = "closing"
    /\ con_exc' = "CancelledError"
    /\ UNCHANGED <<con_fixed, con_buffer, con_browser, con_closes, con_report>>

\* browser.close() returns (line 208); the async with block is left
con_close_done ==
    /\ con_pc = "closing"
    /\ con_browser' = "closed"
    /\ con_closes' = con_closes + 1
    /\ con_pc' = "exiting"
    /\ UNCHANGED <<con_fixed, con_buffer, con_exc, con_report>>

\* lines 210-236: the sort and the returned dict
con_return ==
    /\ con_pc = "exiting"
    /\ IF con_exc # "none"
       THEN /\ con_pc' = "raised"
            /\ UNCHANGED con_report
       ELSE /\ con_pc' = "done"
            /\ con_report' = con_build_report
    /\ UNCHANGED <<con_fixed, con_buffer, con_browser, con_closes, con_exc>>

con_Init ==
    /\ con_errors_only \in BOOLEAN
    /\ con_messages = <<>>
    /\ con_exceptions = <<>>
    /\ con_arrivals = <<>>
    /\ con_pc = "init"
    /\ con_browser = "none"
    /\ con_closes = 0
    /\ con_exc = "none"
    /\ con_report = con_NoReport

con_Idle ==
    /\ con_errors_only = FALSE
    /\ con_messages = <<>>
    /\ con_exceptions = <<>>
    /\ con_arrivals = <<>>
    /\ con_pc = "init"
    /\ con_browser = "none"
    /\ con_closes = 0
    /\ con_exc = "none"
    /\ con_report = con_NoReport

con_Next ==
    \/ con_launch
    \/ con_enable_runtime
    \/ con_enable_log
    \/ con_goto_ok
    \/ con_goto_raises
    \/ con_idle_done
    \/ con_sleep_done
    \/ con_cancel
    \/ con_close_done
    \/ con_return
    \/ \E t \in con_ConsoleTypes, ts \in con_Timestamps : con_on_console_api_called(t, ts)
    \/ \E ts \in con_Timestamps : con_on_exception_thrown(ts)

(***************************************************************************)
(* idioms.py: chunked                                                      *)
(***************************************************************************)
\* the values of the items
ItemValues == {"x", "y"}
\* the sequences passed as items
ItemLists == UNION {[1..n -> ItemValues] : n \in 0..MaxLen}
\* the integers passed as size
Sizes == (-1)..MaxSize

\* items[a : b] with one element too many
slice_one_more(items, a, b) ==
    SubSeq(items, a + 1, IF b + 1 < Len(items) THEN b + 1 ELSE Len(items))

\* items[a : b] for 0 <= a <= b
slice(items, a, b) ==
    SubSeq(items, a + 1, IF b < Len(items) THEN b ELSE Len(items))

\* i is a value range(0, stop, step) still produces, step # 0
range_has(i, stop, step) == IF step > 0 THEN i < stop ELSE i > stop

ch_fixed == <<ch_items, ch_size, ni_vars, cd_vars, con_vars, md_vars, dr_vars, rt_vars>>

\* first next() on the generator: range(0, len(items), size) is built;
\* range() raises ValueError when its step is 0
ch_range ==
    /\ ch_pc = "start"
    /\ IF ch_size = 0
       THEN /\ ch_pc' = "raised"
            /\ ch_exc' = "ValueError"
            /\ UNCHANGED ch_i
       ELSE /\ ch_pc' = "loop"
            /\ ch_i' = 0
            /\ UNCHANGED ch_exc
    /\ UNCHANGED <<ch_fixed, ch_chunks>>

\* one iteration of the for loop: yield items[i : i + size]
ch_yield ==
    /\ ch_pc = "loop"
    /\ range_has(ch_i, Len(ch_items), ch_size)
    /\ ch_chunks' = Append(ch_chunks, slice(ch_items, ch_i, ch_i + ch_size))
    /\ ch_i' = ch_i + ch_size
    /\ UNCHANGED <<ch_fixed, ch_pc, ch_exc>>

\* the range is exhausted: the generator returns
ch_stop ==
    /\ ch_pc = "loop"
    /\ ~range_has(ch_i, Len(ch_items), ch_size)
    /\ ch_pc' = "exhausted"
    /\ UNCHANGED <<ch_fixed, ch_i, ch_chunks, ch_exc>>

ch_Init ==
    /\ ch_items \in ItemLists
    /\ ch_size \in Sizes
    /\ ch_pc = "start"
    /\ ch_i = 0
    /\ ch_chunks = <<>>
    /\ ch_exc = "none"

ch_Idle ==
    /\ ch_items = <<>>
    /\ ch_size = 1
    /\ ch_pc = "start"
    /\ ch_i = 0
    /\ ch_chunks = <<>>
    /\ ch_exc = "none"

ch_Next ==
    \/ ch_range
    \/ ch_yield
    \/ ch_stop

(***************************************************************************)
(* idioms.py: merge_dicts                                                  *)
(***************************************************************************)
DictKeys == {"a", "b"}
DictValues == {1, 2}
\* the dicts over these keys and values
Dicts == UNION {[ks -> DictValues] : ks \in SUBSET DictKeys}

\* d | e where the value of d is kept for a key of both
dict_or_keeps_left(d, e) ==
    [x \in DOMAIN d \cup DOMAIN e |-> IF x \in DOMAIN d THEN d[x] ELSE e[x]]

\* d | e as result |= d computes it: the value of e wins for a key of both
dict_or(d, e) ==
    [x \in DOMAIN d \cup DOMAIN e |-> IF x \in DOMAIN e THEN e[x] ELSE d[x]]

md_fixed == <<md_dicts, md_given, ni_vars, cd_vars, con_vars, ch_vars, dr_vars, rt_vars>>

\* line 129: result = {}, a new dict object
md_new_result ==
    /\ md_pc = "call"
    /\ md_heap' = Append(md_heap, <<>>)
    /\ md_result' = Len(md_heap) + 1
    /\ md_k' = 1
    /\ md_pc' = "loop"
    /\ UNCHANGED md_fixed

\* lines 130-131: one iteration, result |= d
md_update ==
    /\ md_pc = "loop"
    /\ md_k <= Len(md_dicts)
    /\ md_heap' = [md_heap EXCEPT ![md_result] = dict_or(md_heap[md_result], md_heap[md_dicts[md_k]])]
    /\ md_k' = md_k + 1
    /\ UNCHANGED <<md_fixed, md_result, md_pc>>

\* line 132: return result
md_return ==
    /\ md_pc = "loop"
    /\ md_k > Len(md_dicts)
    /\ md_pc' = "returned"
    /\ UNCHANGED <<md_fixed, md_heap, md_result, md_k>>

md_Init ==
    /\ md_heap \in UNION {[1..n -> Dicts] : n \in 0..MaxObjects}
    /\ md_dicts \in UNION {[1..n -> 1..Len(md_heap)] : n \in 0..MaxArgs}
    /\ md_given = md_heap
    /\ md_result = 0
    /\ md_k = 0
    /\ md_pc = "call"

md_Idle ==
    /\ md_heap = <<>>
    /\ md_dicts = <<>>
    /\ md_given = <<>>
    /\ md_result = 0
    /\ md_k = 0
    /\ md_pc = "call"

md_Next ==
    \/ md_new_result
    \/ md_update
    \/ md_return

(***************************************************************************)
(* models.py: DateRange                                                    *)
(***************************************************************************)
\* datetimes lie on a grid of half days; this many grid steps make a day
UnitsPerDay == 2
\* the (naive) datetimes passed as start and end
Times == 0..MaxTime
\* no DateRange object
NoDateRange == [exists |-> FALSE, start |-> 0, end |-> 0]

\* the test of validate_range with < for <=
dr_range_rejected_if_before(start, end) == end < start

\* DateRange.validate_range raises ValueError: self.end <= self.start
dr_range_rejected(start, end) == end <= start

\* timedelta.days of end - start: whole days, rounded towards minus infinity
dr_timedelta_days(start, end) == (end - start) \div UnitsPerDay

dr_fixed == <<dr_start, dr_end, ni_vars, cd_vars, con_vars, ch_vars, md_vars, rt_vars>>

\* DateRange(start=..., end=...): the fields are set, then the
\* model_validator runs; pydantic turns its ValueError into ValidationError
dr_construct ==
    /\ dr_pc = "init"
    /\ IF dr_range_rejected(dr_start, dr_end)
       THEN /\ dr_pc' = "raised"
            /\ dr_exc' = "ValidationError"
            /\ UNCHANGED dr_value
       ELSE /\ dr_pc' = "constructed"
            /\ dr_value' = [exists |-> TRUE, start |-> dr_start, end |-> dr_end]
            /\ UNCHANGED dr_exc
    /\ UNCHANGED <<dr_fixed, dr_days>>

\* reading the computed field days of the constructed object
dr_read_days ==
    /\ dr_pc = "constructed"
    /\ dr_days' = dr_timedelta_days(dr_value.start, dr_value.end)
    /\ dr_pc' = "read"
    /\ UNCHANGED <<dr_fixed, dr_value, dr_exc>>

dr_Init ==
    /\ dr_start \in Times
    /\ dr_end \in Times
    /\ dr_pc = "init"
    /\ dr_value = NoDateRange
    /\ dr_exc = "none"
    /\ dr_days = 0

dr_Idle ==
    /\ dr_start = 0
    /\ dr_end = 0
    /\ dr_pc = "init"
    /\ dr_value = NoDateRange
    /\ dr_exc = "none"
    /\ dr_days = 0

dr_Next ==
    \/ dr_construct
    \/ dr_read_days

(***************************************************************************)
(* test_utils.py: run_tests                                                *)
(***************************************************************************)
\* TestFramework.name values
FrameworkNames == {<<"j","e","s","t">>, <<"p","y","t","e","s","t">>}
\* framework_filter values: None, one that matches jest up to case, one that
\* matches both names, one that matches none
FrameworkFilters == {<<>>, <<"J","e","s","t">>, <<"e","s","t">>, <<"c","y">>}
\* return codes of a framework's command
ReturnCodes == {0, 1}

\* the dict results as run_tests creates it (lines 333-338)
rt_new_results == [success |-> TRUE, frameworks_run |-> <<>>, server_started |-> FALSE,
                   errors |-> <<>>]

\* lines 376-378: the frameworks whose name contains the filter, case ignored
rt_filtered(frameworks, framework_filter) ==
    IF framework_filter # <<>>
    THEN LET Matches(name) == search(lower(framework_filter), lower(name))
         IN  SelectSeq(frameworks, Matches)
    ELSE frameworks

rt_inputs == <<rt_with_server, rt_server_required, rt_server_command, rt_frameworks,
               rt_framework_filter, rt_port_in_use>>
rt_fixed == <<rt_inputs, ni_vars, cd_vars, con_vars, ch_vars, md_vars, dr_vars>>

\* lines 344-362: the server is started unless it is not wanted or the port is
\* in use; Popen may raise (then the finally block has nothing to stop and the
\* exception leaves run_tests)
rt_start_server ==
    /\ rt_pc = "start"
    /\ IF rt_with_server /\ rt_server_required /\ rt_server_command
       THEN IF rt_port_in_use
            THEN /\ rt_pc' = "filter"
                 /\ UNCHANGED rt_server_proc
            ELSE \/ /\ rt_server_proc' = "running"
                    /\ rt_pc' = "waiting"
                 \/ /\ rt_pc' = "raised"
                    /\ UNCHANGED rt_server_proc
       ELSE /\ rt_pc' = "filter"
            /\ UNCHANGED rt_server_proc
    /\ UNCHANGED <<rt_fixed, rt_to_run, rt_k, rt_results>>

\* the timeout branch of wait_for_server taken as a plain return of results,
\* past the finally block
rt_wait_for_server_no_cleanup ==
    /\ rt_pc = "waiting"
    /\ \/ /\ rt_results' = [rt_results EXCEPT !.server_started = TRUE]
          /\ rt_pc' = "filter"
       \/ /\ rt_results' = [rt_results EXCEPT !.errors = Append(@, "Server failed to start"),
                                              !.success = FALSE]
          /\ rt_pc' = "returned"
    /\ UNCHANGED <<rt_fixed, rt_server_proc, rt_to_run, rt_k>>

\* lines 366-373: wait_for_server(port, timeout=30) returns True, or False and
\* run_tests returns results through the finally block
rt_wait_for_server ==
    /\ rt_pc = "waiting"
    /\ \/ /\ rt_results' = [rt_results EXCEPT !.server_started = TRUE]
          /\ rt_pc' = "filter"
       \/ /\ rt_results' = [rt_results EXCEPT !.errors = Append(@, "Server failed to start"),
                                              !.success = FALSE]
          /\ rt_pc' = "cleanup"
    /\ UNCHANGED <<rt_fixed, rt_server_proc, rt_to_run, rt_k>>

\* lines 376-384: the filter, and the return when nothing is left to run
rt_select_frameworks ==
    /\ rt_pc = "filter"
    /\ rt_to_run' = rt_filtered(rt_frameworks, rt_framework_filter)
    /\ IF rt_to_run' = <<>>
       THEN /\ rt_results' = [rt_results EXCEPT !.errors = Append(@, "No test frameworks detected")]
            /\ rt_pc' = "cleanup"
            /\ UNCHANGED rt_k
       ELSE /\ rt_pc' = "run"
            /\ rt_k' = 1
            /\ UNCHANGED rt_results
    /\ UNCHANGED <<rt_fixed, rt_server_proc>>

\* lines 387-422, subprocess.run returns with returncode
rt_run_framework(returncode) ==
    /\ rt_pc = "run"
    /\ rt_k <= Len(rt_to_run)
    /\ rt_results' = [rt_results EXCEPT
           !.frameworks_run = Append(@, [name |-> rt_to_run[rt_k], success |-> returncode = 0,
                                         returncode |-> returncode]),
           !.success = IF returncode # 0 THEN FALSE ELSE @]
    /\ rt_k' = rt_k + 1
    /\ UNCHANGED <<rt_fixed, rt_pc, rt_server_proc, rt_to_run>>

\* lines 387-432, subprocess.run raises: the except block
rt_run_framework_raises ==
    /\ rt_pc = "run"
    /\ rt_k <= Len(rt_to_run)
    /\ rt_results' = [rt_results EXCEPT !.errors = Append(@, "raised"), !.success = FALSE]
    /\ rt_k' = rt_k + 1
    /\ UNCHANGED <<rt_fixed, rt_pc, rt_server_proc, rt_to_run>>

\* the for loop ends; the finally block is next
rt_loop_done ==
    /\ rt_pc = "run"
    /\ rt_k > Len(rt_to_run)
    /\ rt_pc' = "cleanup"
    /\ UNCHANGED <<rt_fixed, rt_server_proc, rt_to_run, rt_k, rt_results>>

\* lines 434-448: the finally block and the return; SIGTERM ends the server
\* within the 5 s wait, or killpg/wait raises and server_proc.kill() is called
rt_cleanup ==
    /\ rt_pc = "cleanup"
    /\ IF rt_server_proc # "None"
       THEN \/ rt_server_proc' = "terminated"
            \/ rt_server_proc' = "killed"
       ELSE UNCHANGED rt_server_proc
    /\ rt_pc' = "returned"
    /\ UNCHANGED <<rt_fixed, rt_to_run, rt_k, rt_results>>

rt_Init ==
    /\ rt_with_server \in BOOLEAN
    /\ rt_server_required \in BOOLEAN
    /\ rt_server_command \in BOOLEAN
    /\ rt_frameworks \in UNION {[1..n -> FrameworkNames] : n \in 0..MaxFrameworks}
    /\ rt_framework_filter \in FrameworkFilters
    /\ rt_port_in_use \in BOOLEAN
    /\ rt_pc = "start"
    /\ rt_server_proc = "None"
    /\ rt_to_run = <<>>
    /\ rt_k = 0
    /\ rt_results = rt_new_results

rt_Idle ==
    /\ rt_with_server = FALSE
    /\ rt_server_required = FALSE
    /\ rt_server_command = FALSE
    /\ rt_frameworks = <<>>
    /\ rt_framework_filter = <<>>
    /\ rt_port_in_use = FALSE
    /\ rt_pc = "start"
    /\ rt_server_proc = "None"
    /\ rt_to_run = <<>>
    /\ rt_k = 0
    /\ rt_results = rt_new_results

rt_Next ==
    \/ rt_start_server
    \/ rt_wait_for_server
    \/ rt_select_frameworks
    \/ \E returncode \in ReturnCodes : rt_run_framework(returncode)
    \/ rt_run_framework_raises
    \/ rt_loop_done
    \/ rt_cleanup

(***************************************************************************)
(* Specifications: one run of one tool or function, the others not started *)
(***************************************************************************)
ni_Idle ==
    /\ ni_filter_types = <<>>
    /\ ni_url_pattern = <<>>
    /\ ni_errors_only = FALSE
    /\ ni_capture_bodies = FALSE
    /\ ni_heap = <<>>
    /\ ni_requests = <<>>
    /\ ni_completed = <<>>
    /\ ni_tasks = <<>>
    /\ ni_task_raised = {}
    /\ ni_pc = "init"
    /\ ni_browser = "none"
    /\ ni_closes = 0
    /\ ni_exc = "none"
    /\ ni_delivered = 0
    /\ ni_rejected = {}
    /\ ni_report = NoReport
    /\ ni_handlers = {}

cd_Idle ==
    /\ cd_filter_types = <<>>
    /\ cd_url_pattern = <<>>
    /\ cd_errors_only = FALSE
    /\ cd_requests = <<>>
    /\ cd_events = <<>>
    /\ cd_start_time = 0
    /\ cd_pc = "init"
    /\ cd_browser = "none"
    /\ cd_closes = 0
    /\ cd_exc = "none"
    /\ cd_report = cd_NoReport

cd_Init ==
    /\ cd_filter_types \in cd_FilterChoices
    /\ cd_url_pattern \in PatternChoices
    /\ cd_errors_only \in BOOLEAN
    /\ cd_requests = <<>>
    /\ cd_events = <<>>
    /\ cd_start_time = 0
    /\ cd_pc = "init"
    /\ cd_browser = "none"
    /\ cd_closes = 0
    /\ cd_exc = "none"
    /\ cd_report = cd_NoReport

\* NetworkInspector(...) constructed, capture() not yet called
InitNI == ni_Init /\ cd_Idle /\ con_Idle /\ ch_Idle /\ md_Idle /\ dr_Idle /\ rt_Idle

\* CombinedDebugger(...) constructed, capture() not yet called
InitCD == cd_Init /\ ni_Idle /\ con_Idle /\ ch_Idle /\ md_Idle /\ dr_Idle /\ rt_Idle

\* ConsoleDebugger(...) constructed, capture() not yet called
InitCon == con_Init /\ ni_Idle /\ cd_Idle /\ ch_Idle /\ md_Idle /\ dr_Idle /\ rt_Idle

\* chunked(items, size) called, the generator not yet advanced
InitChunked == ch_Init /\ ni_Idle /\ cd_Idle /\ con_Idle /\ md_Idle /\ dr_Idle /\ rt_Idle

\* merge_dicts(*dicts) called
InitMerge == md_Init /\ ni_Idle /\ cd_Idle /\ con_Idle /\ ch_Idle /\ dr_Idle /\ rt_Idle

\* DateRange(start, end) about to be constructed
InitDateRange == dr_Init /\ ni_Idle /\ cd_Idle /\ con_Idle /\ ch_Idle /\ md_Idle /\ rt_Idle

\* run_tests(config, ...) called
InitRunTests == rt_Init /\ ni_Idle /\ cd_Idle /\ con_Idle /\ ch_Idle /\ md_Idle /\ dr_Idle

SpecNI == InitNI /\ [][ni_Next]_vars

SpecCD == InitCD /\ [][cd_Next]_vars

SpecCon == InitCon /\ [][con_Next]_vars

SpecChunked == InitChunked /\ [][ch_Next]_vars

SpecMerge == InitMerge /\ [][md_Next]_vars

SpecDateRange == InitDateRange /\ [][dr_Next]_vars

SpecRunTests == InitRunTests /\ [][rt_Next]_vars

(***************************************************************************)
(* Properties                                                              *)
(***************************************************************************)
\* the request dicts the inspector ever stored
ni_stored_requests == {ni_heap[ref] : ref \in {r \in 1..Len(ni_heap) : ni_heap[r].kind = "request"}}

\* the request dicts of the report's data
ni_reported_requests ==
    {ni_report.data[i] : i \in {k \in 1..Len(ni_report.data) : ni_report.data[k].kind = "request"}}

\* two characters that differ at most in letter case
SameLetter(a, b) == a = b \/ \E i \in 1..26 : {a, b} = {UpperChars[i], LowerChars[i]}

\* two texts that differ at most in letter case
EqualIgnoringCase(s, t) == Len(s) = Len(t) /\ \A k \in 1..Len(s) : SameLetter(s[k], t[k])

\* C1 (as claimed): when the network inspector returns its report, every request
\* id still in the pending map has an entry in the report's data.
C1_PendingRequestsReported ==
    ni_report.built =>
        \A rid \in DOMAIN ni_requests :
            \E i \in 1..Len(ni_report.data) : ni_report.data[i].id = rid

\* C2 (as claimed): a step in which the combined debugger handles requestfailed
\* for a pending request id leaves that id out of the pending map.
C2_TerminalRemovesPending ==
    [][\A rid \in cd_RequestIds :
          (/\ rid \in DOMAIN cd_requests
           /\ Len(cd_events') = Len(cd_events) + 1
           /\ cd_events'[Len(cd_events')].type = "request_failed")
          => rid \notin DOMAIN cd_requests']_vars

\* C3 (as claimed): with a URL pattern configured, every entry of the completed
\* list and of the report's data has a URL that matches the pattern.
C3_AllStoredUrlsMatch ==
    ni_url_pattern # <<>> =>
        /\ \A i \in 1..Len(ni_completed) : search(ni_url_pattern, ni_heap[ni_completed[i]].url)
        /\ \A i \in 1..Len(ni_report.data) : search(ni_url_pattern, ni_report.data[i].url)

\* C3 (amended): with a URL pattern configured, every request dict the inspector
\* stores (pending or completed) or reports has a URL that matches the pattern,
\* and the report counts no more entries than its data holds.
C3_StoredRequestUrlsMatch ==
    ni_url_pattern # <<>> =>
        /\ \A req \in ni_stored_requests : search(ni_url_pattern, req.url)
        /\ \A req \in ni_reported_requests : search(ni_url_pattern, req.url)
        /\ ni_report.total = Len(ni_report.data)

\* C3 witness: a report with a request in its data, built under a pattern that
\* rejected another request.
C3_Witness ==
    /\ ni_url_pattern # <<>>
    /\ ni_report.built
    /\ ni_reported_requests # {}
    /\ \E p \in ni_rejected : ~search(ni_url_pattern, p[1])

\* C4: with a resource-type allowlist configured, every stored request has a type
\* that equals an allowlisted type up to letter case, and no request whose type
\* does so (and whose URL passes the pattern) was rejected.
C4_TypesWithinAllowlist ==
    ni_filter_types # <<>> =>
        /\ \A req \in ni_stored_requests :
               \E i \in 1..Len(ni_filter_types) : EqualIgnoringCase(ni_filter_types[i], req.type)
        /\ \A p \in ni_rejected :
               (\E i \in 1..Len(ni_filter_types) : EqualIgnoringCase(ni_filter_types[i], p[2]))
               => (ni_url_pattern # <<>> /\ ~search(ni_url_pattern, p[1]))

\* C4 witness: a stored request whose type is allowlisted only up to letter case,
\* and a rejected request whose type is not allowlisted.
C4_Witness ==
    /\ ni_filter_types # <<>>
    /\ \E req \in ni_stored_requests : ~InList(req.type, ni_filter_types)
    /\ \E p \in ni_rejected :
           \A i \in 1..Len(ni_filter_types) : ~EqualIgnoringCase(ni_filter_types[i], p[2])

\* C5 (as claimed): the console debugger stores exactly the console events that
\* arrive with errors-only off, or whose level is error or warning.
C5_ConsoleStoredIffSevere ==
    LET Accepted(t) == ~con_errors_only \/ con_type_to_level(t) \in {"error", "warning"}
    IN  [i \in 1..Len(con_messages) |-> con_messages[i].type] = SelectSeq(con_arrivals, Accepted)

\* the events of other positions within the correlation window of position i
cd_expected_related(events, i) ==
    LET Positions == [j \in 1..Len(events) |-> j]
        Near(j) == j # i /\ Abs(events[j].timestamp_ms - events[i].timestamp_ms) <= CorrelationWindow
        near == SelectSeq(Positions, Near)
    IN  [k \in 1..Len(near) |-> events[near[k]]]

\* C6 (as claimed): in the combined report every request_failed, page_error and
\* navigation_error event has as related events exactly the other events of the
\* report at most 100 ms away.
C6_RelatedEventsExact ==
    cd_report.built =>
        LET out == [i \in 1..Len(cd_report.events) |-> cd_report.events[i].event]
        IN  \A i \in 1..Len(out) :
                out[i].type \in {"request_failed", "page_error", "navigation_error"}
                => cd_report.events[i].related_events = cd_expected_related(out, i)

C8_StatusCountsPartition ==
    ni_report.built =>
        ni_report.by_status["2xx"] + ni_report.by_status["3xx"] + ni_report.by_status["4xx"]
            + ni_report.by_status["5xx"] + ni_report.by_status["failed"] = Len(ni_report.data)

\* C9: a stored body is the fetched body when that is at most max_body_size
\* long; otherwise it is its first max_body_size units followed by the marker
\* that states the fetched length.
C9_BodyTruncation ==
    \A ref \in 1..Len(ni_heap) :
        LET b == ni_heap[ref].body
        IN  b.tag = "str" =>
                /\ Len(b.fetched) <= max_body_size => b.text = b.fetched
                /\ Len(b.fetched) > max_body_size =>
                       /\ SubSeq(b.text, 1, max_body_size) = SubSeq(b.fetched, 1, max_body_size)
                       /\ SubSeq(b.text, max_body_size + 1, Len(b.text))
                              = <<"... (truncated, total ", ToString(Len(b.fetched)), " bytes)">>

\* C9 witness: a completed request holds the stored form of a body one unit
\* longer than max_body_size.
C9_Witness ==
    \E i \in 1..Len(ni_completed) :
        /\ ni_heap[ni_completed[i]].body.tag = "str"
        /\ Len(ni_heap[ni_completed[i]].body.fetched) = max_body_size + 1
        /\ Len(ni_heap[ni_completed[i]].body.text) > max_body_size + 1

\* C10 (as claimed): the step in which the network inspector records the
\* navigation error of a failed goto leaves capture() on its way to the
\* observation sleep.
C10_NavigationErrorStillObserves ==
    [][(/\ ni_pc = "goto"
        /\ Len(ni_completed') = Len(ni_completed) + 1
        /\ ni_heap'[ni_completed'[Len(ni_completed')]].kind = "navigation_error")
       => ni_pc' \in {"idle", "sleep"}]_vars

\* C11 (as claimed): whenever capture() of the network inspector has been left,
\* by return or by exception, with the browser launched, browser.close() has run
\* and the browser is closed.
C11_SessionClosedOnExit ==
    (ni_pc \in {"done", "raised"} /\ ni_browser # "none")
    => (ni_browser = "closed" /\ ni_closes >= 1)

\* C12 (as claimed): when a capture of the combined debugger has been ended by an
\* interrupt, a report holding every event captured so far has been built and
\* the browser has been closed exactly once.
C12_InterruptYieldsPartialReport ==
    (cd_pc \in {"done", "raised"} /\ cd_exc = "CancelledError")
    => /\ cd_report.built
       /\ cd_report.total_events = Len(cd_events)
       /\ cd_closes = 1

\* C13 (as claimed): a capture of the network inspector that got past its
\* observation window (the finally block closed the browser) without being
\* cancelled ends with a built report.
C13_DrainedCaptureReports ==
    (ni_pc \in {"done", "raised"} /\ ni_closes = 1 /\ ni_exc # "CancelledError")
    => ni_report.built

\* C14: once Network.enable has been rejected, capture() has raised the error to
\* its caller: it is at no later step, no protocol event was delivered or
\* stored, and no report is built.
C14_EnableRejectionIsFatal ==
    ni_exc = "ProtocolError" =>
        /\ ni_pc = "raised"
        /\ ni_delivered = 0
        /\ ni_heap = <<>>
        /\ ni_completed = <<>>
        /\ ~ni_report.built

\* C14 witness: capture() left by the rejection of Network.enable after the
\* browser was launched.
C14_Witness ==
    /\ ni_exc = "ProtocolError"
    /\ ni_pc = "raised"
    /\ ni_browser = "open"
    /\ ni_report = NoReport

\* the step is the resumption of task i of _on_loading_finished with the body
\* fetch raising: the task ends and its request's body becomes None
ni_fetch_failed_step(i) ==
    /\ ni_tasks[i].stage = "awaiting"
    /\ ni_tasks' = RemoveAt(ni_tasks, i)
    /\ Len(ni_heap') = Len(ni_heap)
    /\ ni_heap[ni_tasks[i].ref].body.tag # "None"
    /\ ni_heap'[ni_tasks[i].ref].body.tag = "None"

\* after the step the request of task i is the new last entry of the completed
\* list with its body None, its id is not pending, capture() goes on as before,
\* and every other request dict and pending id is as it was
ni_terminated_without_body(i) ==
    LET ref == ni_tasks[i].ref
        rid == ni_tasks[i].rid
    IN  /\ ni_completed' = Append(ni_completed, ref)
        /\ rid \notin DOMAIN ni_requests'
        /\ ni_heap' = [ni_heap EXCEPT ![ref].body = [tag |-> "None", text |-> <<>>, fetched |-> <<>>]]
        /\ \A other \in RequestIds \ {rid} :
               /\ other \in DOMAIN ni_requests <=> other \in DOMAIN ni_requests'
               /\ other \in DOMAIN ni_requests => ni_requests'[other] = ni_requests[other]
        /\ UNCHANGED <<ni_pc, ni_exc, ni_browser>>

\* C15 (as claimed): every step in which a body fetch fails moves the request to
\* the completed list with its body None, removes its id from the pending map
\* and leaves capture() and the other requests alone.
C15_FetchFailureTerminates ==
    [][\A i \in 1..Len(ni_tasks) : ni_fetch_failed_step(i) => ni_terminated_without_body(i)]_vars

\* C15 (amended): the same, for an inspector whose errors-only option is off.
C15_FetchFailureTerminatesUnfiltered ==
    [][\A i \in 1..Len(ni_tasks) :
          (~ni_errors_only /\ ni_fetch_failed_step(i)) => ni_terminated_without_body(i)]_vars

\* C15 witness: with errors-only off, a completed request whose body is None
\* after a failed fetch, its id no longer pending, while another request is
\* pending.
C15_Witness ==
    /\ ~ni_errors_only
    /\ ni_capture_bodies
    /\ \E k \in 1..Len(ni_completed) :
           /\ ni_heap[ni_completed[k]].kind = "request"
           /\ ni_heap[ni_completed[k]].body.tag = "None"
           /\ ni_heap[ni_completed[k]].id \notin DOMAIN ni_requests
    /\ DOMAIN ni_requests # {}

\* C16 (as claimed): in the combined report the four kind counts sum to
\* total_events, the number of items in the events array.
C16_KindCountsPartition ==
    cd_report.built =>
        /\ cd_report.total_events = Len(cd_report.events)
        /\ cd_report.requests + cd_report.responses + cd_report.errors
               + cd_report.console_messages = cd_report.total_events

\* the dict task i of _on_loading_finished works on: the one it looked up before
\* its await, or the pending one of its id; 0 when its id is not pending
ni_handled_ref(i) ==
    IF ni_tasks[i].stage = "awaiting" THEN ni_tasks[i].ref
    ELSE IF ni_tasks[i].rid \in DOMAIN ni_requests THEN ni_requests[ni_tasks[i].rid]
    ELSE 0

\* the step runs task i of _on_loading_finished to its end on a request that
\* has a response
ni_finished_step(i) ==
    /\ ni_tasks' = RemoveAt(ni_tasks, i)
    /\ ni_handled_ref(i) # 0
    /\ ni_heap'[ni_handled_ref(i)].response.tag = "dict"

\* the step is _on_loading_failed for the pending id rid
ni_failed_step(rid) ==
    /\ rid \in DOMAIN ni_requests
    /\ ~ni_heap[ni_requests[rid]].error
    /\ ni_heap'[ni_requests[rid]].error

\* C17: with errors-only on, every entry of the completed list has an error or a
\* response status >= 400; a loadingFailed step stores its request; a
\* loadingFinished handler that ends on a request with a response stores it when
\* its status is >= 400 (or it has an error) and stores nothing otherwise; in
\* each case the id leaves the pending map.
C17_ErrorsOnlyStoresFailures ==
    [][ni_errors_only =>
          /\ \A k \in 1..Len(ni_completed') :
                 \/ ni_heap'[ni_completed'[k]].error
                 \/ /\ ni_heap'[ni_completed'[k]].response.tag = "dict"
                    /\ ni_heap'[ni_completed'[k]].response.status >= 400
          /\ \A rid \in RequestIds :
                 ni_failed_step(rid) =>
                     /\ ni_completed' = Append(ni_completed, ni_requests[rid])
                     /\ rid \notin DOMAIN ni_requests'
          /\ \A i \in 1..Len(ni_tasks) :
                 ni_finished_step(i) =>
                     LET ref == ni_handled_ref(i)
                     IN  /\ ni_tasks[i].rid \notin DOMAIN ni_requests'
                         /\ IF ni_heap'[ref].error \/ ni_heap'[ref].response.status >= 400
                            THEN ni_completed' = Append(ni_completed, ref)
                            ELSE ni_completed' = ni_completed]_vars

\* C17 witness: with errors-only on, a request that finished with a status
\* below 400 is neither pending nor in the completed list.
C17_Witness ==
    /\ ni_errors_only
    /\ \E ref \in 1..Len(ni_heap) :
           /\ ni_heap[ref].completed = "True"
           /\ ni_heap[ref].response.tag = "dict"
           /\ ni_heap[ref].response.status < 400
           /\ ~ni_heap[ref].error
           /\ \A k \in 1..Len(ni_completed) : ni_completed[k] # ref
           /\ ni_heap[ref].id \notin DOMAIN ni_requests
           /\ \A i \in 1..Len(ni_tasks) : ni_tasks[i].rid # ni_heap[ref].id

\* the chunks joined in order
RECURSIVE Concat(_)
Concat(seqs) == IF seqs = <<>> THEN <<>> ELSE Head(seqs) \o Concat(Tail(seqs))

\* the chunks partition the items: joined in order they are the items, every
\* chunk but the last has size elements, the last has between 1 and size
ch_partition ==
    /\ Concat(ch_chunks) = ch_items
    /\ \A k \in 1..(Len(ch_chunks) - 1) : Len(ch_chunks[k]) = ch_size
    /\ ch_chunks # <<>> =>
           /\ 1 <= Len(ch_chunks[Len(ch_chunks)])
           /\ Len(ch_chunks[Len(ch_chunks)]) <= ch_size
    /\ ch_items = <<>> => ch_chunks = <<>>

\* C18 (as claimed): when the generator chunked(items, size) is exhausted, the
\* chunks it yielded partition items.
C18_ChunksPartition ==
    ch_pc = "exhausted" => ch_partition

\* C18 (amended): for size >= 1 the generator never raises, and when it is
\* exhausted the chunks it yielded partition items; for size = 0 it raises
\* ValueError and for size < 0 it yields no chunk.
C18_ChunksPartitionPositiveSize ==
    /\ (ch_size >= 1 /\ ch_pc = "exhausted") => ch_partition
    /\ ch_size >= 1 => ch_pc # "raised"
    /\ (ch_size = 0 /\ ch_pc # "start") => (ch_pc = "raised" /\ ch_exc = "ValueError")
    /\ ch_size < 0 => ch_chunks = <<>>

\* C18 witness: an exhausted generator that yielded a full chunk and then a
\* shorter last one, for a size of at least 2.
C18_Witness ==
    /\ ch_pc = "exhausted"
    /\ ch_size >= 2
    /\ Len(ch_chunks) >= 2
    /\ Len(ch_chunks[Len(ch_chunks)]) < ch_size

\* the last argument of merge_dicts whose dict (as given) has the key
md_last_with(key) ==
    CHOOSE k \in 1..Len(md_dicts) :
        /\ key \in DOMAIN md_given[md_dicts[k]]
        /\ \A j \in (k + 1)..Len(md_dicts) : key \notin DOMAIN md_given[md_dicts[j]]

\* C19: when merge_dicts has returned, the keys of its result are the union of
\* the keys of its arguments, each key has the value of the last argument that
\* has it, and every dict object that existed at the call is as it was.
C19_MergeLastWins ==
    md_pc = "returned" =>
        LET result == md_heap[md_result]
        IN  /\ DOMAIN result = UNION {DOMAIN md_given[md_dicts[k]] : k \in 1..Len(md_dicts)}
            /\ \A key \in DOMAIN result :
                   result[key] = md_given[md_dicts[md_last_with(key)]][key]
            /\ \A ref \in 1..Len(md_given) : md_heap[ref] = md_given[ref]
            /\ md_result \notin 1..Len(md_given)

\* C19 witness: merge_dicts returned for arguments whose first and last dict
\* have different values for one key, an earlier argument having a key that
\* the last one lacks.
C19_Witness ==
    /\ md_pc = "returned"
    /\ Len(md_dicts) >= 2
    /\ \E key \in DictKeys, own \in DictKeys :
           /\ key \in DOMAIN md_given[md_dicts[1]]
           /\ key \in DOMAIN md_given[md_dicts[Len(md_dicts)]]
           /\ md_given[md_dicts[1]][key] # md_given[md_dicts[Len(md_dicts)]][key]
           /\ own \in DOMAIN md_given[md_dicts[1]]
           /\ own \notin DOMAIN md_given[md_dicts[Len(md_dicts)]]

\* C20: once the constructor has run, a DateRange exists exactly if end is
\* after start; otherwise the constructor raised ValidationError and no object
\* exists; the days read from a constructed range are never negative.
C20_DateRangeIffEndAfterStart ==
    dr_pc # "init" =>
        /\ dr_pc \in {"constructed", "read"} <=> dr_end > dr_start
        /\ dr_value.exists <=> dr_end > dr_start
        /\ dr_pc = "raised" <=> dr_end <= dr_start
        /\ dr_pc = "raised" => (dr_exc = "ValidationError" /\ dr_value = NoDateRange)
        /\ dr_pc = "read" => dr_days >= 0

\* C20 witness: the constructor raised for an end equal to start.
C20_Witness ==
    /\ dr_pc = "raised"
    /\ dr_end = dr_start
    /\ dr_exc = "ValidationError"

\* C21 (as claimed): a step never replaces the entry of an id that is pending:
\* as long as the id stays in the pending map it names the same request dict
\* (a second requestWillBeSent for the id is dropped).
C21_DuplicateStartDropped ==
    [][\A rid \in RequestIds :
          (rid \in DOMAIN ni_requests /\ rid \in DOMAIN ni_requests')
          => ni_requests'[rid] = ni_requests[rid]]_vars

\* what the network inspector stores, counts and raises
ni_observable == <<ni_heap, ni_requests, ni_completed, ni_task_raised, ni_rejected,
                   ni_pc, ni_exc, ni_report>>

\* C22: a responseReceived or loadingFailed handler, and a loadingFinished
\* handler when it starts to run, whose request id is not in the pending map
\* changes nothing: pending map, completed list and request dicts are as
\* before and nothing is raised.
C22_UnknownIdIsNoOp ==
    [][/\ \A rid \in RequestIds, st \in Statuses :
              (rid \notin DOMAIN ni_requests /\ ni_on_response_received(rid, st))
              => UNCHANGED ni_observable
       /\ \A rid \in RequestIds :
              (rid \notin DOMAIN ni_requests /\ ni_on_loading_failed(rid))
              => UNCHANGED ni_observable
       /\ ((\E i \in 1..Len(ni_tasks) : ni_tasks[i].stage = "scheduled")
           /\ ni_tasks[ni_next_scheduled].rid \notin DOMAIN ni_requests
           /\ ni_on_loading_finished)
              => UNCHANGED ni_observable]_vars

\* C22 witness: a report built after MaxEvents events, none of them a
\* requestWillBeSent (nothing stored, nothing rejected): every event was for an
\* unknown id, every loadingFinished task has run, and the report is empty.
C22_Witness ==
    /\ ni_report.built
    /\ ni_delivered = MaxEvents
    /\ ni_rejected = {}
    /\ ni_heap = <<>>
    /\ ni_tasks = <<>>
    /\ ni_task_raised = {}
    /\ ni_report.total = 0

\* C23: while the navigation of the network inspector is under way or done and
\* the browser is open (the time in which it produces protocol events), each
\* of the four event names has its handler.
C23_HandlersBeforeNavigation ==
    (ni_pc \in {"goto", "idle", "sleep", "closing"} /\ ni_browser = "open")
    => ni_handlers = NetworkEvents

\* C23 witness: goto has not yet returned and an event of the navigation has
\* already been handled and stored.
C23_Witness ==
    /\ ni_pc = "goto"
    /\ ni_handlers = NetworkEvents
    /\ ni_delivered >= 1
    /\ DOMAIN ni_requests # {}

C25_StateClearedAfterReport ==
    ni_report.built => (ni_completed = <<>> /\ ni_requests = <<>>)

\* C26 (as claimed): every entry the console debugger stores, console message
\* or exception or navigation error, carries a time, and it is not negative.
C26_EveryEntryHasOffset ==
    /\ \A i \in 1..Len(con_messages) :
           con_messages[i].has_timestamp /\ con_messages[i].timestamp >= 0
    /\ \A i \in 1..Len(con_exceptions) :
           con_exceptions[i].has_timestamp /\ con_exceptions[i].timestamp >= 0

\* C27 (as claimed): no request dict is in the completed list twice, and no
\* loadingFinished task ends with the KeyError of deleting an id that is not
\* pending.
C27_StoredOnce ==
    /\ \A i, j \in 1..Len(ni_completed) : i # j => ni_completed[i] # ni_completed[j]
    /\ "KeyError" \notin ni_task_raised

\* C28 (as claimed): no loadingFinished task and no error count ends with the
\* AttributeError of reading the status of a response that is None, and a
\* request whose loadingFinished handler has run is not pending any more.
C28_FinishWithoutResponseTolerated ==
    /\ "AttributeError" \notin ni_task_raised
    /\ ni_exc # "AttributeError"
    /\ \A rid \in DOMAIN ni_requests :
           (ni_heap[ni_requests[rid]].completed = "True")
           => \E i \in 1..Len(ni_tasks) : ni_tasks[i].rid = rid

\* C29 (as claimed): in the results run_tests returns, success is False when
\* the errors list is not empty or a framework run has a non-zero return code.
C29_SuccessOnlyWithoutErrors ==
    rt_pc = "returned" =>
        ((\/ rt_results.errors # <<>>
          \/ \E i \in 1..Len(rt_results.frameworks_run) :
                 rt_results.frameworks_run[i].returncode # 0)
         => ~rt_results.success)

\* C30: when run_tests has returned, a server process it started is not
\* running any more, whichever way run_tests took; and it started none, and so
\* stopped none, when a server was already listening on the port.
C30_ServerStoppedOnReturn ==
    /\ rt_pc = "returned" => rt_server_proc \in {"None", "terminated", "killed"}
    /\ rt_port_in_use => rt_server_proc = "None"

\* C30 witness: run_tests returned after its server did not get ready in
\* time, and the server process it had started is stopped.
C30_Witness ==
    /\ rt_pc = "returned"
    /\ rt_server_proc \in {"terminated", "killed"}
    /\ ~rt_results.server_started
    /\ rt_results.errors # <<>>

====
